---- MODULE Spec2Model ----
(***************************************************************************)
(* Model of server.js: the Socket.IO tic-tac-toe server.  The state is the *)
(* process-wide `rooms` map, the set of connected sockets and a summary of *)
(* the messages emitted by the handler that ran last.  Every event handler *)
(* runs to completion, so each handler is one action.  `hist` is a history *)
(* variable: per room, the symbol of the last accepted move since the      *)
(* board was last cleared, and whether that game has ended.  `track` is a   *)
(* second history, kept only by the specifications that start with it      *)
(* switched on: per room, the symbol each player was given in its          *)
(* game:joined reply, and whether the room has not been reset yet.  `loop` *)
(* is the position of a create-room request inside its re-sampling loop,   *)
(* for the specification that takes the loop one draw at a time.           *)
(***************************************************************************)
EXTENDS Integers, Sequences, FiniteSets, TLC

VARIABLES conn, rooms, hist, out, probe, track, loop

vars == <<conn, rooms, hist, out, probe, track, loop>>

(***************************************************************************)
(* Bounds of the model.                                                    *)
(***************************************************************************)
NumSockets == 2        \* connections of Spec
NumLobbySockets == 3   \* connections of SpecLobby
NumIds == 2            \* ids generateRoomId can draw
MaxCell == 3           \* clients ask for cells 0..MaxCell, and for one past the board
MaxTrackCell == 1      \* cells 0..MaxTrackCell that clients of SpecTrack ask for

BoardSize == 9

Sockets == 1..NumSockets
LobbySockets == 1..NumLobbySockets
NoSocket == 0

Symbols == {"X", "O"}
Null == "null"
Undefined == "undefined"
Cells == 0..(BoardSize - 1)
EmptyBoard == [i \in Cells |-> Null]

(***************************************************************************)
(* Strings that carry a room id.  A string is its characters up to case    *)
(* and surrounding blanks: base is the id it spells (0: no characters,     *)
(* -1: the field is missing), case and pad say how it is written.          *)
(***************************************************************************)
Str(base, case, pad) == [base |-> base, case |-> case, pad |-> pad]
Missing == Str(-1, "upper", FALSE)
Trim(str) == [str EXCEPT !.pad = FALSE]
ToUpperCase(str) == [str EXCEPT !.case = "upper"]
ToLowerCase(str) == [str EXCEPT !.case = "lower"]
TrimmedLength(str) == IF str.base <= 0 THEN 0 ELSE 6

\* generateRoomId: six characters of A-Z0-9, so an upper-case unpadded string
generateRoomId == {Str(k, "upper", FALSE) : k \in 1..NumIds}

\* what a client can send as the roomId of join-room, for the ids it may know:
\* nothing, an empty or blank string, or an id as drawn or in lower case between blanks
JoinInputs(ids) ==
    {Missing, Str(0, "upper", FALSE), Str(0, "upper", TRUE)}
    \cup ids \cup {Str(id.base, "lower", TRUE) : id \in ids}

\* `room-${Date.now()}-${shortRoomId.toLowerCase()}`.  The clock reading is left
\* out: no handler reads it back, and a client may send any full id at any time.
FullRoomId(shortRoomId) == [prefix |-> "room", short |-> ToLowerCase(shortRoomId)]

\* what a client can send as the roomId of move, reset and leave
FullInputs(ids) == {FullRoomId(id) : id \in ids}

\* what a client can send as the index of a move
IndexInputs == (0..MaxCell) \cup {BoardSize}

(***************************************************************************)
(* checkWinner                                                             *)
(***************************************************************************)
\* Lines with a slip in the second diagonal
LinesSlip ==
    << <<0, 1, 2>>, <<3, 4, 5>>, <<6, 7, 8>>,
       <<0, 3, 6>>, <<1, 4, 7>>, <<2, 5, 8>>,
       <<0, 4, 8>>, <<2, 4, 7>> >>

Lines ==
    << <<0, 1, 2>>, <<3, 4, 5>>, <<6, 7, 8>>,
       <<0, 3, 6>>, <<1, 4, 7>>, <<2, 5, 8>>,
       <<0, 4, 8>>, <<2, 4, 6>> >>

LineMatches(board, l) ==
    /\ board[l[1]] # Null
    /\ board[l[1]] = board[l[2]]
    /\ board[l[1]] = board[l[3]]

checkWinner(board) ==
    LET hits == {n \in 1..Len(Lines) : LineMatches(board, Lines[n])}
    IN  IF hits # {}
        THEN LET first == CHOOSE n \in hits : \A m \in hits : n <= m
             IN  board[Lines[first][1]]
        ELSE IF \A i \in DOMAIN board : board[i] # Null
             THEN "draw"
             ELSE Null

(***************************************************************************)
(* Messages.  A handler replies to its sender (socket.emit) and broadcasts *)
(* to a room's group: io.to(id) reaches the whole group, socket.to(id) the *)
(* group without the sender.                                               *)
(***************************************************************************)
NoMsg == [type |-> "none"]
Error(text) == [type |-> "game:error", text |-> text]
Joined(roomId, shortRoomId, symbol, isFirstPlayer) ==
    [type |-> "game:joined", roomId |-> roomId, shortRoomId |-> shortRoomId,
     symbol |-> symbol, isFirstPlayer |-> isFirstPlayer]
Left == [type |-> "game:left"]

IoTo(roomId, type, body) ==
    [type |-> type, to |-> roomId, except |-> NoSocket, body |-> body]
SocketTo(s, roomId, type, body) ==
    [type |-> type, to |-> roomId, except |-> s, body |-> body]
NoBody == [empty |-> TRUE]
MoveBody(board, currentPlayer, winner) ==
    [board |-> board, currentPlayer |-> currentPlayer, winner |-> winner]

\* what the state keeps of a handler's messages: the event handled, the kind of
\* the reply to the sender, the kinds of the broadcasts
Out(ev, reply, bcast) ==
    [ev |-> ev, reply |-> reply.type, bcast |-> {b.type : b \in bcast}]

(***************************************************************************)
(* The rooms map.                                                          *)
(***************************************************************************)
Has(m, k) == k \in DOMAIN m
MapSet(m, k, v) == [x \in DOMAIN m \cup {k} |-> IF x = k THEN v ELSE m[x]]
MapDelete(m, k) == [x \in DOMAIN m \ {k} |-> m[x]]

Includes(seq, x) == \E i \in 1..Len(seq) : seq[i] = x
Filter(seq, x) == SelectSeq(seq, LAMBDA y : y # x)
Other(symbol) == IF symbol = "X" THEN "O" ELSE "X"

\* the scan `for (const [key, value] of rooms.entries()) if (value.fullRoomId === roomId)`:
\* the keys it can stop at (live rooms never share a fullRoomId)
FindByFullRoomId(roomId) == {k \in DOMAIN rooms : rooms[k].fullRoomId = roomId}
Found(roomId) == CHOOSE k \in FindByFullRoomId(roomId) : TRUE

\* board[index] for any index a client sends
BoardAt(board, index) == IF index \in DOMAIN board THEN board[index] ELSE Undefined

NewHist == [lastSym |-> Null, over |-> FALSE]

PlayerSet(room) == {room.players[i] : i \in 1..Len(room.players)}

\* the history of the symbols given out: off, or on and empty
NoTrack == [on |-> FALSE, rooms |-> << >>]
NewTrack == [on |-> TRUE, rooms |-> << >>]

\* game:joined told s its symbol in a room that starts or goes on
TrackJoined(shortRoomId, s, reply) ==
    IF ~track.on \/ reply.type # "game:joined"
    THEN track
    ELSE IF reply.isFirstPlayer
    THEN [track EXCEPT !.rooms =
            MapSet(@, shortRoomId, [symbols |-> (s :> reply.symbol), fresh |-> TRUE])]
    ELSE [track EXCEPT !.rooms[shortRoomId].symbols = (s :> reply.symbol) @@ @]

\* a reset was processed for the room
TrackReset(shortRoomId) ==
    IF ~track.on THEN track ELSE [track EXCEPT !.rooms[shortRoomId].fresh = FALSE]

\* players left: the history keeps the rooms and the players that are in `after`
TrackPlayers(after) ==
    IF ~track.on
    THEN track
    ELSE [track EXCEPT !.rooms =
            [k \in DOMAIN after |->
                [symbols |-> [p \in PlayerSet(after[k]) |-> track.rooms[k].symbols[p]],
                 fresh |-> track.rooms[k].fresh]]]

\* no create-room request is inside its loop
NoLoop == [pc |-> "idle", s |-> NoSocket, shortRoomId |-> Str(0, "upper", FALSE)]

(***************************************************************************)
(* Initial state: the server has started, nobody is connected.             *)
(***************************************************************************)
NoProbe == [board |-> EmptyBoard, result |-> "idle"]

Init ==
    /\ conn = {}
    /\ rooms = << >>
    /\ hist = << >>
    /\ out = Out("start", NoMsg, {})
    /\ probe = NoProbe
    /\ track = NoTrack
    /\ loop = NoLoop

\* io.on('connection'): a connection under an id no open connection has
Connect(s) ==
    /\ s \notin conn
    /\ conn' = conn \cup {s}
    /\ out' = Out("connection", NoMsg, {})
    /\ UNCHANGED <<rooms, hist, probe, track, loop>>

(***************************************************************************)
(* game:create-room                                                        *)
(***************************************************************************)
\* the loop left out: the first id drawn is taken
LoopExitAtOnce(shortRoomId) == TRUE

\* the condition that ends `while (rooms.has(shortRoomId))`
LoopExit(shortRoomId) == ~Has(rooms, shortRoomId)

\* NewRoom that starts the game at once
NewRoomPlaying(s, fullRoomId) ==
    [players |-> <<s>>,
     board |-> EmptyBoard,
     currentPlayer |-> "X",
     gameStatus |-> "playing",
     fullRoomId |-> fullRoomId,
     lastStartingPlayer |-> "X"]

NewRoom(s, fullRoomId) ==
    [players |-> <<s>>,
     board |-> EmptyBoard,
     currentPlayer |-> "X",
     gameStatus |-> "waiting",
     fullRoomId |-> fullRoomId,
     lastStartingPlayer |-> "X"]

CreateRooms(s, shortRoomId) ==
    MapSet(rooms, shortRoomId, NewRoom(s, FullRoomId(shortRoomId)))

CreateReply(shortRoomId) == Joined(FullRoomId(shortRoomId), shortRoomId, "X", TRUE)

\* draws: the ids generateRoomId can return during this request
CreateRoom(s, draws) ==
    /\ s \in conn
    /\ \E shortRoomId \in draws :
        /\ LoopExit(shortRoomId)
        /\ rooms' = CreateRooms(s, shortRoomId)
        /\ hist' = MapSet(hist, shortRoomId, NewHist)
        /\ track' = TrackJoined(shortRoomId, s, CreateReply(shortRoomId))
        /\ out' = Out("game:create-room", CreateReply(shortRoomId), {})
    /\ UNCHANGED <<conn, probe, loop>>

(***************************************************************************)
(* game:join-room                                                          *)
(***************************************************************************)
\* JoinError with the full-room check off by one
JoinErrorAboveTwo(s, roomId) ==
    IF roomId = Missing \/ TrimmedLength(roomId) = 0
    THEN Error("Invalid room ID. Please enter a room ID.")
    ELSE LET shortRoomId == ToUpperCase(Trim(roomId))
         IN  IF ~Has(rooms, shortRoomId)
             THEN Error("Room not found. Please check the room ID.")
             ELSE IF Len(rooms[shortRoomId].players) > 2
             THEN Error("Room is full. Maximum 2 players allowed.")
             ELSE IF Includes(rooms[shortRoomId].players, s)
             THEN Error("You are already in this room.")
             ELSE NoMsg

\* the reply to a request that fails a check, NoMsg when it passes them all
JoinError(s, roomId) ==
    IF roomId = Missing \/ TrimmedLength(roomId) = 0
    THEN Error("Invalid room ID. Please enter a room ID.")
    ELSE LET shortRoomId == ToUpperCase(Trim(roomId))
         IN  IF ~Has(rooms, shortRoomId)
             THEN Error("Room not found. Please check the room ID.")
             ELSE IF Len(rooms[shortRoomId].players) >= 2
             THEN Error("Room is full. Maximum 2 players allowed.")
             ELSE IF Includes(rooms[shortRoomId].players, s)
             THEN Error("You are already in this room.")
             ELSE NoMsg

\* JoinedRoom without the assignment of currentPlayer
JoinedRoomKeepTurn(s, room) ==
    [room EXCEPT !.players = Append(room.players, s),
                 !.gameStatus = "playing"]

JoinedRoom(s, room) ==
    [room EXCEPT !.players = Append(room.players, s),
                 !.gameStatus = "playing",
                 !.currentPlayer = room.lastStartingPlayer]

\* what the handler does: the rooms map it leaves, its reply, its broadcasts
JoinResult(s, roomId) ==
    LET error == JoinError(s, roomId)
        shortRoomId == ToUpperCase(Trim(roomId))
    IN  IF error # NoMsg
        THEN [rooms |-> rooms, reply |-> error, bcast |-> {}]
        ELSE [rooms |-> [rooms EXCEPT ![shortRoomId] = JoinedRoom(s, @)],
              reply |-> Joined(rooms[shortRoomId].fullRoomId, shortRoomId, "O", FALSE),
              bcast |-> {IoTo(rooms[shortRoomId].fullRoomId, "game:player-joined",
                              [symbol |-> "X"])}]

JoinRooms(s, roomId) == JoinResult(s, roomId).rooms
JoinReply(s, roomId) == JoinResult(s, roomId).reply
JoinBcast(s, roomId) == JoinResult(s, roomId).bcast

JoinRoom(s, roomId) ==
    /\ s \in conn
    /\ LET result == JoinResult(s, roomId)
       IN  /\ rooms' = result.rooms
           /\ track' = TrackJoined(ToUpperCase(Trim(roomId)), s, result.reply)
           /\ out' = Out("game:join-room", result.reply, result.bcast)
    /\ UNCHANGED <<conn, hist, probe, loop>>

(***************************************************************************)
(* game:move                                                               *)
(***************************************************************************)
\* MoveError without the turn check
MoveErrorAnyTurn(roomId, index, symbol) ==
    IF FindByFullRoomId(roomId) = {}
    THEN Error("Room not found")
    ELSE LET room == rooms[Found(roomId)]
         IN  IF room.gameStatus # "playing"
             THEN Error("Game is not in progress")
             ELSE IF BoardAt(room.board, index) # Null
             THEN Error("Cell already occupied")
             ELSE NoMsg

\* MoveError without the check of the cell
MoveErrorAnyCell(roomId, index, symbol) ==
    IF FindByFullRoomId(roomId) = {}
    THEN Error("Room not found")
    ELSE LET room == rooms[Found(roomId)]
         IN  IF room.gameStatus # "playing"
             THEN Error("Game is not in progress")
             ELSE IF room.currentPlayer # symbol
             THEN Error("Not your turn")
             ELSE NoMsg

\* the reply to a request that fails a check, NoMsg when it passes them all
MoveError(roomId, index, symbol) ==
    IF FindByFullRoomId(roomId) = {}
    THEN Error("Room not found")
    ELSE LET room == rooms[Found(roomId)]
         IN  IF room.gameStatus # "playing"
             THEN Error("Game is not in progress")
             ELSE IF room.currentPlayer # symbol
             THEN Error("Not your turn")
             ELSE IF BoardAt(room.board, index) # Null
             THEN Error("Cell already occupied")
             ELSE NoMsg

\* board[index] = symbol: an index at the end of the array adds a cell
PlaceMark(board, index, symbol) ==
    [i \in DOMAIN board \cup {index} |-> IF i = index THEN symbol ELSE board[i]]

MovedRoom(room, index, symbol) ==
    LET board == PlaceMark(room.board, index, symbol)
    IN  [room EXCEPT !.board = board,
                     !.currentPlayer = Other(symbol),
                     !.gameStatus = IF checkWinner(board) # Null
                                    THEN "finished" ELSE room.gameStatus]

\* what the handler does: the rooms map it leaves, its reply, its broadcasts, and
\* for the history the symbol of the move and whether the game has ended
MoveResult(roomId, index, symbol) ==
    LET error == MoveError(roomId, index, symbol)
    IN  IF error # NoMsg
        THEN [rooms |-> rooms, reply |-> error, bcast |-> {}, hist |-> hist]
        ELSE LET k == Found(roomId)
                 room == MovedRoom(rooms[k], index, symbol)
             IN  [rooms |-> [rooms EXCEPT ![k] = room],
                  reply |-> NoMsg,
                  bcast |-> {IoTo(roomId, "game:move",
                                  MoveBody(room.board, room.currentPlayer,
                                           checkWinner(room.board)))},
                  hist |-> [hist EXCEPT ![k] =
                              [lastSym |-> symbol,
                               over |-> @.over \/ room.gameStatus = "finished"]]]

MoveRooms(roomId, index, symbol) == MoveResult(roomId, index, symbol).rooms
MoveBcast(roomId, index, symbol) == MoveResult(roomId, index, symbol).bcast

Move(s, roomId, index, symbol) ==
    /\ s \in conn
    /\ LET result == MoveResult(roomId, index, symbol)
       IN  /\ rooms' = result.rooms
           /\ hist' = result.hist
           /\ out' = Out("game:move", result.reply, result.bcast)
    /\ UNCHANGED <<conn, probe, track, loop>>

(***************************************************************************)
(* game:reset                                                              *)
(***************************************************************************)
ResetError(roomId) ==
    IF FindByFullRoomId(roomId) = {} THEN Error("Room not found") ELSE NoMsg

\* ResetRoom that keeps the opener of the last game
ResetRoomSameOpener(room) ==
    [room EXCEPT !.board = EmptyBoard,
                 !.currentPlayer = room.lastStartingPlayer,
                 !.gameStatus = "playing"]

ResetRoom(room) ==
    [room EXCEPT !.lastStartingPlayer = Other(room.lastStartingPlayer),
                 !.board = EmptyBoard,
                 !.currentPlayer = Other(room.lastStartingPlayer),
                 !.gameStatus = "playing"]

ResetRooms(roomId) ==
    IF ResetError(roomId) # NoMsg
    THEN rooms
    ELSE [rooms EXCEPT ![Found(roomId)] = ResetRoom(@)]

ResetBcast(roomId) ==
    IF ResetError(roomId) # NoMsg
    THEN {}
    ELSE LET room == ResetRoom(rooms[Found(roomId)])
         IN  {IoTo(roomId, "game:move", MoveBody(room.board, room.currentPlayer, Null))}

Reset(s, roomId) ==
    /\ s \in conn
    /\ rooms' = ResetRooms(roomId)
    /\ hist' = IF ResetError(roomId) # NoMsg
               THEN hist
               ELSE [hist EXCEPT ![Found(roomId)] = NewHist]
    /\ track' = IF ResetError(roomId) # NoMsg THEN track ELSE TrackReset(Found(roomId))
    /\ out' = Out("game:reset", ResetError(roomId), ResetBcast(roomId))
    /\ UNCHANGED <<conn, probe, loop>>

(***************************************************************************)
(* game:leave                                                              *)
(***************************************************************************)
\* LeaveRooms without the deletion of the emptied room
LeaveRoomsKeepEmpty(s, roomId) ==
    IF FindByFullRoomId(roomId) = {}
    THEN rooms
    ELSE [rooms EXCEPT ![Found(roomId)].players = Filter(@, s)]

LeaveRooms(s, roomId) ==
    IF FindByFullRoomId(roomId) = {}
    THEN rooms
    ELSE LET k == Found(roomId)
             players == Filter(rooms[k].players, s)
         IN  IF Len(players) = 0
             THEN MapDelete(rooms, k)
             ELSE [rooms EXCEPT ![k].players = players]

LeaveReply(s, roomId) == IF FindByFullRoomId(roomId) = {} THEN NoMsg ELSE Left

LeaveBcast(s, roomId) ==
    IF FindByFullRoomId(roomId) = {}
    THEN {}
    ELSE IF Len(Filter(rooms[Found(roomId)].players, s)) = 0
    THEN {}
    ELSE {SocketTo(s, roomId, "game:opponent-left", NoBody)}

Leave(s, roomId) ==
    /\ s \in conn
    /\ rooms' = LeaveRooms(s, roomId)
    /\ hist' = [k \in DOMAIN rooms' |-> hist[k]]
    /\ track' = TrackPlayers(rooms')
    /\ out' = Out("game:leave", LeaveReply(s, roomId), LeaveBcast(s, roomId))
    /\ UNCHANGED <<conn, probe, loop>>

(***************************************************************************)
(* disconnect: every room that holds the socket loses it                   *)
(***************************************************************************)
\* DisconnectRooms that stops at the first room that holds the socket
DisconnectRoomsFirstOnly(s) ==
    LET mine == {k \in DOMAIN rooms : Includes(rooms[k].players, s)}
    IN  IF mine = {}
        THEN rooms
        ELSE LET k == CHOOSE x \in mine : TRUE
                 players == Filter(rooms[k].players, s)
             IN  IF Len(players) = 0
                 THEN MapDelete(rooms, k)
                 ELSE [rooms EXCEPT ![k].players = players]

DisconnectRooms(s) ==
    LET mine == {k \in DOMAIN rooms : Includes(rooms[k].players, s)}
        gone == {k \in mine : Len(Filter(rooms[k].players, s)) = 0}
    IN  [k \in DOMAIN rooms \ gone |->
            IF k \in mine
            THEN [rooms[k] EXCEPT !.players = Filter(@, s)]
            ELSE rooms[k]]

DisconnectBcast(s) ==
    {SocketTo(s, rooms[k].fullRoomId, "game:opponent-left", NoBody) :
        k \in {x \in DOMAIN rooms : /\ Includes(rooms[x].players, s)
                                    /\ Len(Filter(rooms[x].players, s)) # 0}}

Disconnect(s) ==
    /\ s \in conn
    /\ conn' = conn \ {s}
    /\ rooms' = DisconnectRooms(s)
    /\ hist' = [k \in DOMAIN rooms' |-> hist[k]]
    /\ track' = TrackPlayers(rooms')
    /\ out' = Out("disconnect", NoMsg, DisconnectBcast(s))
    /\ UNCHANGED <<probe, loop>>

(***************************************************************************)
(* Spec: a server whose id generator draws one id, so one room at a time,  *)
(* with every handler.  SpecLobby: several rooms and one more connection   *)
(* than a room holds, with the handlers that change who is in which room.  *)
(***************************************************************************)
GameDraws == {Str(1, "upper", FALSE)}

Next ==
    \/ \E s \in Sockets : Connect(s)
    \/ \E s \in Sockets : CreateRoom(s, GameDraws)
    \/ \E s \in Sockets, roomId \in JoinInputs(GameDraws) : JoinRoom(s, roomId)
    \/ \E s \in Sockets, roomId \in FullInputs(GameDraws), index \in IndexInputs, symbol \in Symbols :
          Move(s, roomId, index, symbol)
    \/ \E s \in Sockets, roomId \in FullInputs(GameDraws) : Reset(s, roomId)
    \/ \E s \in Sockets, roomId \in FullInputs(GameDraws) : Leave(s, roomId)
    \/ \E s \in Sockets : Disconnect(s)

Spec == Init /\ [][Next]_vars

NextLobby ==
    \/ \E s \in LobbySockets : Connect(s)
    \/ \E s \in LobbySockets : CreateRoom(s, generateRoomId)
    \/ \E s \in LobbySockets, roomId \in JoinInputs(generateRoomId) : JoinRoom(s, roomId)
    \/ \E s \in LobbySockets, roomId \in FullInputs(generateRoomId) : Leave(s, roomId)
    \/ \E s \in LobbySockets : Disconnect(s)

SpecLobby == Init /\ [][NextLobby]_vars

(***************************************************************************)
(* SpecTrack: Spec with the history of the symbols given out switched on,  *)
(* and moves on the first cells of the board only.                         *)
(***************************************************************************)
InitTrack ==
    /\ conn = {}
    /\ rooms = << >>
    /\ hist = << >>
    /\ out = Out("start", NoMsg, {})
    /\ probe = NoProbe
    /\ track = NewTrack
    /\ loop = NoLoop

NextTrack ==
    \/ \E s \in Sockets : Connect(s)
    \/ \E s \in Sockets : CreateRoom(s, GameDraws)
    \/ \E s \in Sockets, roomId \in JoinInputs(GameDraws) : JoinRoom(s, roomId)
    \/ \E s \in Sockets, roomId \in FullInputs(GameDraws), index \in 0..MaxTrackCell, symbol \in Symbols :
          Move(s, roomId, index, symbol)
    \/ \E s \in Sockets, roomId \in FullInputs(GameDraws) : Reset(s, roomId)
    \/ \E s \in Sockets, roomId \in FullInputs(GameDraws) : Leave(s, roomId)
    \/ \E s \in Sockets : Disconnect(s)

SpecTrack == InitTrack /\ [][NextTrack]_vars

(***************************************************************************)
(* SpecDraw: create-room taken one draw of generateRoomId at a time.  The  *)
(* handler still runs to completion: while a request is in its loop no     *)
(* other handler runs.  Fairness: a draw that can come comes eventually.    *)
(***************************************************************************)
\* the generator that returns the id it returned before
ResampleSame(shortRoomId) == {shortRoomId}

\* what `shortRoomId = generateRoomId()` can assign inside the loop
Resample(shortRoomId) == generateRoomId

\* `let shortRoomId = generateRoomId()`
BeginCreate(s) ==
    /\ s \in conn
    /\ loop.pc = "idle"
    /\ \E shortRoomId \in generateRoomId :
        loop' = [pc |-> "loop", s |-> s, shortRoomId |-> shortRoomId]
    /\ UNCHANGED <<conn, rooms, hist, out, probe, track>>

\* one turn of `while (rooms.has(shortRoomId)) shortRoomId = generateRoomId()`
Redraw(shortRoomId) ==
    /\ loop.pc = "loop"
    /\ ~LoopExit(loop.shortRoomId)
    /\ shortRoomId \in Resample(loop.shortRoomId)
    /\ loop' = [loop EXCEPT !.shortRoomId = shortRoomId]
    /\ UNCHANGED <<conn, rooms, hist, out, probe, track>>

\* the loop ends and the room is registered
EndCreate ==
    /\ loop.pc = "loop"
    /\ LoopExit(loop.shortRoomId)
    /\ rooms' = CreateRooms(loop.s, loop.shortRoomId)
    /\ hist' = MapSet(hist, loop.shortRoomId, NewHist)
    /\ track' = TrackJoined(loop.shortRoomId, loop.s, CreateReply(loop.shortRoomId))
    /\ out' = Out("game:create-room", CreateReply(loop.shortRoomId), {})
    /\ loop' = NoLoop
    /\ UNCHANGED <<conn, probe>>

NextDraw ==
    \/ \E s \in Sockets : BeginCreate(s)
    \/ \E shortRoomId \in generateRoomId : Redraw(shortRoomId)
    \/ EndCreate
    \/ loop.pc = "idle" /\ \E s \in Sockets : Connect(s)
    \/ loop.pc = "idle" /\ \E s \in Sockets, roomId \in JoinInputs(generateRoomId) : JoinRoom(s, roomId)
    \/ loop.pc = "idle" /\ \E s \in Sockets, roomId \in FullInputs(generateRoomId) : Leave(s, roomId)
    \/ loop.pc = "idle" /\ \E s \in Sockets : Disconnect(s)

SpecDraw ==
    /\ Init
    /\ [][NextDraw]_vars
    /\ WF_vars(EndCreate)
    /\ \A shortRoomId \in generateRoomId : WF_vars(Redraw(shortRoomId))

(***************************************************************************)
(* SpecWin: checkWinner applied to every board.                            *)
(***************************************************************************)
Boards == [Cells -> Symbols \cup {Null}]

InitWin ==
    /\ conn = {}
    /\ rooms = << >>
    /\ hist = << >>
    /\ out = Out("start", NoMsg, {})
    /\ \E b \in Boards : probe = [board |-> b, result |-> "idle"]
    /\ track = NoTrack
    /\ loop = NoLoop

CheckBoard ==
    /\ probe.result = "idle"
    /\ probe' = [probe EXCEPT !.result = checkWinner(probe.board)]
    /\ UNCHANGED <<conn, rooms, hist, out, track, loop>>

SpecWin == InitWin /\ [][CheckBoard]_vars

(***************************************************************************)
(* Claims.  AllFullIds and AllJoinInputs are the requests the formulas     *)
(* range over: every full id and every join-room string of the model.      *)
(***************************************************************************)
AllFullIds == FullInputs(generateRoomId)
AllJoinInputs == JoinInputs(generateRoomId)
Marks(board) == {i \in DOMAIN board : board[i] # Null}

\* C1: a move request addressed to an existing room, for a cell 0..8 and a symbol
\* X or O, is accepted (the mark is placed, the move is broadcast, no error) if and
\* only if the room is playing, the symbol is currentPlayer and the cell is empty;
\* otherwise board, currentPlayer and status stay as they are and the sender gets
\* an error reply.
C1_MoveAcceptedIff ==
    \A roomId \in AllFullIds, index \in Cells, symbol \in Symbols :
        FindByFullRoomId(roomId) # {} =>
            LET k == Found(roomId)
                room == rooms[k]
                result == MoveResult(roomId, index, symbol)
                after == result.rooms[k]
                reply == result.reply
                legal == /\ room.gameStatus = "playing"
                         /\ symbol = room.currentPlayer
                         /\ room.board[index] = Null
            IN  /\ legal =>
                    /\ reply.type # "game:error"
                    /\ after.board[index] = symbol
                    /\ result.bcast # {}
                /\ ~legal =>
                    /\ reply.type = "game:error"
                    /\ after.board = room.board
                    /\ after.currentPlayer = room.currentPlayer
                    /\ after.gameStatus = room.gameStatus
                    /\ result.bcast = {}

\* C1 witness: a move was just rejected in a playing room that has a mark on its board
C1_Witness ==
    /\ out.ev = "game:move"
    /\ out.reply = "game:error"
    /\ \E k \in DOMAIN rooms :
        rooms[k].gameStatus = "playing" /\ Marks(rooms[k].board) # {}

\* C2: in every registered room, status playing implies exactly 2 players and
\* status waiting implies exactly 1 player.
C2_StatusMatchesPlayers ==
    \A k \in DOMAIN rooms :
        /\ rooms[k].gameStatus = "playing" => Len(rooms[k].players) = 2
        /\ rooms[k].gameStatus = "waiting" => Len(rooms[k].players) = 1

\* C3: a room leaves the registry exactly when its player count goes to zero, by
\* leave or by disconnect: no registered room has 0 players, a leave or a
\* disconnect removes exactly the rooms whose every player is the sender, a
\* move or a reset removes none, and whenever a room goes the handler that ran
\* is leave or disconnect.
C3_RemovedExactlyWhenEmpty ==
    /\ [](/\ \A k \in DOMAIN rooms : Len(rooms[k].players) >= 1
          /\ \A s \in conn :
              /\ \A roomId \in AllFullIds :
                  LET after == LeaveRooms(s, roomId)
                  IN  \A k \in DOMAIN rooms :
                          ~Has(after, k) <=>
                              (rooms[k].fullRoomId = roomId /\ PlayerSet(rooms[k]) = {s})
              /\ LET after == DisconnectRooms(s)
                 IN  \A k \in DOMAIN rooms : ~Has(after, k) <=> PlayerSet(rooms[k]) = {s}
          /\ \A roomId \in AllFullIds :
              /\ DOMAIN rooms \subseteq DOMAIN ResetRooms(roomId)
              /\ \A index \in {0, BoardSize}, symbol \in Symbols :
                  DOMAIN rooms \subseteq DOMAIN MoveRooms(roomId, index, symbol))
    /\ [][~(DOMAIN rooms \subseteq DOMAIN rooms')
            => out'.ev \in {"game:leave", "disconnect"}]_vars

\* C3 witness: a leave just emptied a room and removed it, while another room stays
C3_Witness ==
    /\ out.ev = "game:leave"
    /\ out.reply = "game:left"
    /\ out.bcast = {}
    /\ Cardinality(DOMAIN rooms) = 1

\* C4: no room ever holds more than 2 players: a join-room on a room with 2
\* players gets the room-full error and changes nothing, and a join-room by a
\* connection that is not in a 1-player room is accepted and makes it a 2-player
\* room, so of two such requests in a row exactly the first is accepted
\* (requests of open connections).
C4_AtMostTwoPlayers ==
    /\ \A k \in DOMAIN rooms : Len(rooms[k].players) <= 2
    /\ \A s \in conn, k \in DOMAIN rooms :
        \A roomId \in {x \in AllJoinInputs : x.base = k.base} :
            LET result == JoinResult(s, roomId)
            IN  /\ Len(rooms[k].players) = 2 =>
                    /\ result.reply = Error("Room is full. Maximum 2 players allowed.")
                    /\ result.rooms = rooms
                /\ (Len(rooms[k].players) = 1 /\ s \notin PlayerSet(rooms[k])) =>
                    /\ result.reply.type = "game:joined"
                    /\ result.rooms[k].players = Append(rooms[k].players, s)

\* C4 witness: a join-room was just rejected while a room is full and a connection
\* that is in no room is open
C4_Witness ==
    /\ out.ev = "game:join-room"
    /\ out.reply = "game:error"
    /\ \E k \in DOMAIN rooms : Len(rooms[k].players) = 2
    /\ \E s \in conn : \A k \in DOMAIN rooms : s \notin PlayerSet(rooms[k])

\* C5: between two resets of a room, any two consecutive accepted moves carry
\* different symbols, whatever leave, disconnect or join happens between them.
C5_MovesAlternate ==
    [][\A k \in DOMAIN rooms \cap DOMAIN rooms' :
          (/\ out'.ev = "game:move"
           /\ rooms'[k].board # rooms[k].board
           /\ hist[k].lastSym # Null)
          => hist'[k].lastSym # hist[k].lastSym]_vars

\* C6: once a room's status has become finished, no move is accepted in it until
\* a reset has been processed for it, whatever leave, disconnect or join happens.
C6_NoMoveAfterFinish ==
    [][\A k \in DOMAIN rooms \cap DOMAIN rooms' :
          (hist[k].over /\ out'.ev = "game:move")
          => rooms'[k].board = rooms[k].board]_vars

\* C7: a reset of an existing room, from any state, clears the board to 9 empty
\* cells, sets status to playing, flips lastStartingPlayer and makes it the
\* currentPlayer; a second reset right after restores the original opener.
C7_ResetFlipsOpener ==
    \A roomId \in AllFullIds :
        FindByFullRoomId(roomId) # {} =>
            LET k == Found(roomId)
                room == rooms[k]
                once == ResetRooms(roomId)[k]
            IN  /\ ResetError(roomId) = NoMsg
                /\ DOMAIN once.board = Cells
                /\ \A i \in Cells : once.board[i] = Null
                /\ once.gameStatus = "playing"
                /\ once.lastStartingPlayer \in Symbols
                /\ once.lastStartingPlayer # room.lastStartingPlayer
                /\ once.currentPlayer = once.lastStartingPlayer
                /\ ResetRoom(once).lastStartingPlayer = room.lastStartingPlayer

\* C7 witness: a reset was just processed and gave the opening to O
C7_Witness ==
    /\ out.ev = "game:reset"
    /\ out.reply = "none"
    /\ \E k \in DOMAIN rooms :
        /\ rooms[k].lastStartingPlayer = "O"
        /\ rooms[k].currentPlayer = "O"
        /\ Marks(rooms[k].board) = {}

\* C8: a request (join-room, move, reset, leave) that fails a precondition gets
\* an error reply to its sender, is never broadcast, and changes no room and not
\* the registry.
C8_FailuresReplyErrorOnly ==
    \A s \in conn :
        /\ \A roomId \in AllJoinInputs :
            ~(\E k \in DOMAIN rooms :
                /\ roomId.base = k.base
                /\ Len(rooms[k].players) < 2
                /\ s \notin PlayerSet(rooms[k]))
            => /\ JoinReply(s, roomId).type = "game:error"
               /\ JoinBcast(s, roomId) = {}
               /\ JoinRooms(s, roomId) = rooms
        /\ \A roomId \in AllFullIds, index \in IndexInputs, symbol \in Symbols :
            ~(\E k \in DOMAIN rooms :
                /\ rooms[k].fullRoomId = roomId
                /\ rooms[k].gameStatus = "playing"
                /\ rooms[k].currentPlayer = symbol
                /\ BoardAt(rooms[k].board, index) = Null)
            => /\ MoveError(roomId, index, symbol).type = "game:error"
               /\ MoveBcast(roomId, index, symbol) = {}
               /\ MoveRooms(roomId, index, symbol) = rooms
        /\ \A roomId \in AllFullIds :
            ~(\E k \in DOMAIN rooms : rooms[k].fullRoomId = roomId)
            => /\ ResetError(roomId).type = "game:error"
               /\ ResetBcast(roomId) = {}
               /\ ResetRooms(roomId) = rooms
               /\ LeaveReply(s, roomId).type = "game:error"
               /\ LeaveBcast(s, roomId) = {}
               /\ LeaveRooms(s, roomId) = rooms

\* C9: the short ids of the registered rooms are pairwise distinct, the full ids
\* made from them too, and create-room registers one more room and leaves every
\* room that was registered as it was.
C9_CreateNeverReplaces ==
    /\ [](Cardinality({rooms[k].fullRoomId : k \in DOMAIN rooms})
            = Cardinality(DOMAIN rooms))
    /\ [][out'.ev = "game:create-room" =>
            /\ \A k \in DOMAIN rooms : Has(rooms', k) /\ rooms'[k] = rooms[k]
            /\ Cardinality(DOMAIN rooms') = Cardinality(DOMAIN rooms) + 1]_vars

\* C9 witness: a create-room was just processed and two rooms are registered
C9_Witness ==
    /\ out.ev = "game:create-room"
    /\ Cardinality(DOMAIN rooms) = 2

\* the 8 lines of the board, as sets of cells
WinLines ==
    {{3 * r, 3 * r + 1, 3 * r + 2} : r \in 0..2}
    \cup {{c, c + 3, c + 6} : c \in 0..2}
    \cup {{0, 4, 8}, {2, 4, 6}}
Filled(board, line, mark) == \A i \in line : board[i] = mark

\* C10: for every board of 9 cells over empty, X and O, checkWinner returns one
\* of null, X, O and draw; it returns a mark only if that mark fills one of the 8
\* lines; it returns draw if and only if every cell is filled and no line holds
\* three equal marks.
C10_WinDetector ==
    probe.result # "idle" =>
        LET board == probe.board
            someLine == \E line \in WinLines, mark \in Symbols : Filled(board, line, mark)
        IN  /\ probe.result \in {Null, "X", "O", "draw"}
            /\ probe.result \in Symbols =>
                \E line \in WinLines : Filled(board, line, probe.result)
            /\ probe.result = "draw" <=>
                ((\A i \in Cells : board[i] # Null) /\ ~someLine)

\* C10 witness: checkWinner has returned draw for a board
C10_Witness == probe.result = "draw"

\* C11: a join-room that is accepted appends the sender as second player, sets
\* status to playing and currentPlayer to the room's lastStartingPlayer, and
\* leaves board and lastStartingPlayer as they are; when the room has not been
\* reset since its creation, currentPlayer is X.
C11_JoinEffect ==
    \A s \in conn, roomId \in AllJoinInputs :
        LET result == JoinResult(s, roomId)
            k == ToUpperCase(Trim(roomId))
        IN  result.reply.type = "game:joined" =>
                /\ Has(rooms, k)
                /\ result.rooms[k].players = Append(rooms[k].players, s)
                /\ Len(result.rooms[k].players) = 2
                /\ result.rooms[k].gameStatus = "playing"
                /\ result.rooms[k].currentPlayer = rooms[k].lastStartingPlayer
                /\ result.rooms[k].board = rooms[k].board
                /\ result.rooms[k].lastStartingPlayer = rooms[k].lastStartingPlayer
                /\ track.rooms[k].fresh => result.rooms[k].currentPlayer = "X"

\* C11 witness: a join-room was just accepted in a room that was never reset and
\* has a mark on its board, and the turn is X's
C11_Witness ==
    /\ out.ev = "game:join-room"
    /\ out.reply = "game:joined"
    /\ \E k \in DOMAIN rooms :
        /\ track.rooms[k].fresh
        /\ Marks(rooms[k].board) # {}
        /\ rooms[k].currentPlayer = "X"
        /\ Len(rooms[k].players) = 2

\* C12: create-room, with any id its loop can end on, registers a new room with
\* status waiting, a board of 9 empty cells, currentPlayer X, lastStartingPlayer
\* X and the sender as its only player, and leaves every other registered room
\* as it was.
C12_CreateFrame ==
    \A s \in conn, shortRoomId \in generateRoomId :
        LoopExit(shortRoomId) =>
            LET after == CreateRooms(s, shortRoomId)
            IN  /\ ~Has(rooms, shortRoomId)
                /\ DOMAIN after = DOMAIN rooms \cup {shortRoomId}
                /\ after[shortRoomId].gameStatus = "waiting"
                /\ DOMAIN after[shortRoomId].board = Cells
                /\ \A i \in Cells : after[shortRoomId].board[i] = Null
                /\ after[shortRoomId].currentPlayer = "X"
                /\ after[shortRoomId].lastStartingPlayer = "X"
                /\ after[shortRoomId].players = <<s>>
                /\ \A k \in DOMAIN rooms : after[k] = rooms[k]

\* C12 witness: a create-room was just processed: its room waits with one player
\* next to a room that two players are in
C12_Witness ==
    /\ out.ev = "game:create-room"
    /\ \E k \in DOMAIN rooms :
        rooms[k].gameStatus = "waiting" /\ Len(rooms[k].players) = 1
    /\ \E k \in DOMAIN rooms : Len(rooms[k].players) = 2

\* C13: after a disconnect, the connection is a player of no registered room
\* (so every player of a room is an open connection): the disconnect takes it
\* out of every room that holds it, deletes those it was alone in, keeps the
\* other player of the others, and leaves the rooms that do not hold it as they
\* are.
C13_DisconnectLeavesEveryRoom ==
    /\ \A k \in DOMAIN rooms : PlayerSet(rooms[k]) \subseteq conn
    /\ \A s \in conn :
        LET after == DisconnectRooms(s)
        IN  /\ \A k \in DOMAIN after : s \notin PlayerSet(after[k])
            /\ \A k \in DOMAIN rooms :
                IF s \notin PlayerSet(rooms[k])
                THEN Has(after, k) /\ after[k] = rooms[k]
                ELSE IF PlayerSet(rooms[k]) = {s}
                THEN ~Has(after, k)
                ELSE /\ Has(after, k)
                     /\ PlayerSet(after[k]) = PlayerSet(rooms[k]) \ {s}
                     /\ Len(after[k].players) = Len(rooms[k].players) - 1
                     /\ after[k].board = rooms[k].board
                     /\ after[k].fullRoomId = rooms[k].fullRoomId

\* C13 witness: a disconnect was just processed that told the players it left
\* behind, and two rooms are registered, each with one player of a started game
C13_Witness ==
    /\ out.ev = "disconnect"
    /\ out.bcast = {"game:opponent-left"}
    /\ Cardinality(DOMAIN rooms) = 2
    /\ \A k \in DOMAIN rooms : Len(rooms[k].players) = 1 /\ rooms[k].gameStatus = "playing"

\* C14: the board of every registered room has exactly the 9 cells 0..8, and a
\* filled cell is never overwritten: no move request, one with an index outside
\* 0..8 included, changes a filled cell or adds a cell, and when a filled cell
\* changes, a reset was processed and the cell is empty.
C14_FilledCellsStay ==
    /\ [](/\ \A k \in DOMAIN rooms : DOMAIN rooms[k].board = Cells
          /\ \A roomId \in AllFullIds, index \in IndexInputs, symbol \in Symbols :
              LET after == MoveRooms(roomId, index, symbol)
              IN  \A k \in DOMAIN rooms :
                      /\ DOMAIN after[k].board = Cells
                      /\ \A i \in Cells :
                          rooms[k].board[i] # Null => after[k].board[i] = rooms[k].board[i])
    /\ [][\A k \in DOMAIN rooms \cap DOMAIN rooms' :
            \A i \in Cells :
                (rooms[k].board[i] # Null /\ rooms'[k].board[i] # rooms[k].board[i])
                => (out'.ev = "game:reset" /\ rooms'[k].board[i] = Null)]_vars

\* C14 witness: a move was just rejected in a started game with two filled cells
C14_Witness ==
    /\ out.ev = "game:move"
    /\ out.reply = "game:error"
    /\ \E k \in DOMAIN rooms :
        /\ rooms[k].gameStatus = "playing"
        /\ Cardinality(Marks(rooms[k].board)) >= 2

\* C15: a join-room from a connection that is already a player of the room it
\* names is answered with the already-joined error, whether the room has 1 or 2
\* players, and leaves the rooms as they are.
C15_AlreadyJoinedError ==
    \A s \in conn, k \in DOMAIN rooms :
        s \in PlayerSet(rooms[k]) =>
            \A roomId \in {x \in AllJoinInputs : x.base = k.base} :
                /\ JoinReply(s, roomId) = Error("You are already in this room.")
                /\ JoinRooms(s, roomId) = rooms

\* C16: at every instant a connection is a player of at most one registered room.
C16_OneRoomPerConnection ==
    \A s \in conn :
        Cardinality({k \in DOMAIN rooms : s \in PlayerSet(rooms[k])}) <= 1

\* C17: create-room terminates: a request inside the re-sampling loop, while
\* some id of the generator is not in the registry, leaves the loop eventually
\* (every draw that can come comes eventually); and the loop is only left with
\* an id that was not in the registry, under which the sender's room is then
\* registered.
C17_CreateTerminates ==
    /\ (loop.pc = "loop" /\ \E shortRoomId \in generateRoomId : ~Has(rooms, shortRoomId))
            ~> (loop.pc = "idle")
    /\ [][(loop.pc = "loop" /\ loop'.pc = "idle") =>
            /\ ~Has(rooms, loop.shortRoomId)
            /\ Has(rooms', loop.shortRoomId)
            /\ rooms'[loop.shortRoomId].players = <<loop.s>>
            /\ \A k \in DOMAIN rooms : Has(rooms', k) /\ rooms'[k] = rooms[k]]_vars

\* C17 witness: a request is inside the loop with an id that is in the registry
\* while another id is free
C17_Witness ==
    /\ loop.pc = "loop"
    /\ Has(rooms, loop.shortRoomId)
    /\ \E shortRoomId \in generateRoomId : ~Has(rooms, shortRoomId)

\* C18: whenever a room has two players, the symbols they were given in their
\* game:joined replies are different.
C18_SymbolsDistinct ==
    \A k \in DOMAIN rooms :
        Len(rooms[k].players) = 2 =>
            track.rooms[k].symbols[rooms[k].players[1]]
                # track.rooms[k].symbols[rooms[k].players[2]]

\* C19: a move changes the board only when its sender is one of the room's
\* players and the symbol it carries is the one that sender was given.
C19_OnlyOwnMoves ==
    \A s \in conn, roomId \in AllFullIds, index \in Cells, symbol \in Symbols :
        FindByFullRoomId(roomId) # {} =>
            LET k == Found(roomId)
            IN  MoveRooms(roomId, index, symbol)[k].board # rooms[k].board =>
                    /\ s \in PlayerSet(rooms[k])
                    /\ track.rooms[k].symbols[s] = symbol

\* C20: game:opponent-left goes to a room's group only when the leave or the
\* disconnect that caused it took a player out of that room: a leave from a
\* connection that is not a player of the room it names changes nothing and
\* tells nobody.
C20_OpponentLeftOnlyOnRemoval ==
    \A s \in conn :
        /\ \A roomId \in AllFullIds :
            FindByFullRoomId(roomId) # {} =>
                LET k == Found(roomId)
                IN  /\ LeaveBcast(s, roomId) # {} => s \in PlayerSet(rooms[k])
                    /\ s \notin PlayerSet(rooms[k]) =>
                        /\ LeaveRooms(s, roomId) = rooms
                        /\ LeaveBcast(s, roomId) = {}
        /\ \A b \in DisconnectBcast(s) :
            \E k \in DOMAIN rooms :
                rooms[k].fullRoomId = b.to /\ s \in PlayerSet(rooms[k])

====
